---- MODULE Spec2Model ----
(***************************************************************************)
(* A model of csv_analyze.py: the ingestion loop of main() that folds the  *)
(* rows of every input file into field_counter, and show_set(), which      *)
(* classifies one column's set of values and prints one summary line.      *)
(*                                                                         *)
(* A Python str is a sequence of one-character strings, <<"1","0">> for    *)
(* '10', so that int(), float(), sorted(), min() and max() are computed    *)
(* from the characters.  Python's None is the value NoneV, which is not    *)
(* a str.  The characters are those of Chars; 'inf' and 'nan' are outside  *)
(* this alphabet.                                                          *)
(***************************************************************************)
EXTENDS Integers, Sequences, FiniteSets, TLC

\* ------------------------------------------------------------------ bounds
MaxFiles == 2
MaxRows == 2
MaxCard == 7

\* ----------------------------------------------------------- Python values
NoneV == <<"None">>

Digits == {"0", "1", "2", "3", "4", "5", "6", "7", "8", "9"}

Chars == Digits \cup {" ", "+", "-", ".", "_", "e", "x", "a", "b"}

\* the code point of a character (str comparison is by code point)
Ord(c) ==
  CASE c = " " -> 32
    [] c = "+" -> 43
    [] c = "-" -> 45
    [] c = "." -> 46
    [] c = "0" -> 48
    [] c = "1" -> 49
    [] c = "2" -> 50
    [] c = "3" -> 51
    [] c = "4" -> 52
    [] c = "5" -> 53
    [] c = "6" -> 54
    [] c = "7" -> 55
    [] c = "8" -> 56
    [] c = "9" -> 57
    [] c = "_" -> 95
    [] c = "a" -> 97
    [] c = "b" -> 98
    [] c = "e" -> 101
    [] c = "x" -> 120

DigitVal(c) == Ord(c) - 48

\* s < t for two str, as Python compares them
RECURSIVE StrLess(_, _)
StrLess(s, t) ==
  IF t = <<>> THEN FALSE
  ELSE IF s = <<>> THEN TRUE
  ELSE IF Ord(Head(s)) # Ord(Head(t)) THEN Ord(Head(s)) < Ord(Head(t))
  ELSE StrLess(Tail(s), Tail(t))

\* str.strip() of the blanks int() and float() ignore
RECURSIVE LStrip(_)
LStrip(s) == IF s # <<>> /\ Head(s) = " " THEN LStrip(Tail(s)) ELSE s

RECURSIVE RStrip(_)
RStrip(s) ==
  IF s # <<>> /\ s[Len(s)] = " " THEN RStrip(SubSeq(s, 1, Len(s) - 1)) ELSE s

Strip(s) == RStrip(LStrip(s))

HasSign(s) == s # <<>> /\ Head(s) \in {"+", "-"}

Unsigned(s) == IF HasSign(s) THEN Tail(s) ELSE s

SignOf(s) == IF s # <<>> /\ Head(s) = "-" THEN -1 ELSE 1

\* digit ("_"? digit)* : the digit part of a Python numeric literal
RECURSIVE IsDigitPart(_)
IsDigitPart(s) ==
  /\ s # <<>>
  /\ Head(s) \in Digits
  /\ \/ Len(s) = 1
     \/ /\ s[2] = "_"
        /\ IsDigitPart(SubSeq(s, 3, Len(s)))
     \/ /\ s[2] # "_"
        /\ IsDigitPart(Tail(s))

\* the number a digit part denotes, continuing from acc
RECURSIVE DigitPartVal(_, _)
DigitPartVal(s, acc) ==
  IF s = <<>> THEN acc
  ELSE IF Head(s) = "_" THEN DigitPartVal(Tail(s), acc)
  ELSE DigitPartVal(Tail(s), 10 * acc + DigitVal(Head(s)))

\* the number of digits of a digit part
RECURSIVE DigitCount(_)
DigitCount(s) ==
  IF s = <<>> THEN 0
  ELSE (IF Head(s) = "_" THEN 0 ELSE 1) + DigitCount(Tail(s))

RECURSIVE Pow10(_)
Pow10(n) == IF n <= 0 THEN 1 ELSE 10 * Pow10(n - 1)

\* int(v) succeeds (no ValueError) on the str v
IntOk(v) == IsDigitPart(Unsigned(Strip(v)))

\* int(v)
IntVal(v) == SignOf(Strip(v)) * DigitPartVal(Unsigned(Strip(v)), 0)

\* the position of the first c in s, or 0
RECURSIVE IndexOf(_, _)
IndexOf(s, c) ==
  IF s = <<>> THEN 0
  ELSE IF Head(s) = c THEN 1
  ELSE IF IndexOf(Tail(s), c) = 0 THEN 0 ELSE 1 + IndexOf(Tail(s), c)

\* the mantissa of an unsigned float literal: all before the exponent
Mantissa(u) == IF IndexOf(u, "e") = 0 THEN u ELSE SubSeq(u, 1, IndexOf(u, "e") - 1)

\* the exponent of an unsigned float literal: all after the "e"
Exponent(u) == SubSeq(u, IndexOf(u, "e") + 1, Len(u))

IntPart(m) == IF IndexOf(m, ".") = 0 THEN m ELSE SubSeq(m, 1, IndexOf(m, ".") - 1)

FracPart(m) == IF IndexOf(m, ".") = 0 THEN <<>> ELSE SubSeq(m, IndexOf(m, ".") + 1, Len(m))

MantissaOk(m) ==
  /\ IntPart(m) = <<>> \/ IsDigitPart(IntPart(m))
  /\ FracPart(m) = <<>> \/ IsDigitPart(FracPart(m))
  /\ IntPart(m) # <<>> \/ FracPart(m) # <<>>

\* float(v) succeeds (no ValueError) on the str v
FloatOk(v) ==
  LET u == Unsigned(Strip(v))
  IN  /\ MantissaOk(Mantissa(u))
      /\ IndexOf(u, "e") # 0 => IsDigitPart(Unsigned(Exponent(u)))

\* float(v), as the fraction num / den with den a power of ten
FloatVal(v) ==
  LET u == Unsigned(Strip(v))
      m == Mantissa(u)
      f == DigitCount(FracPart(m))
      M == DigitPartVal(FracPart(m), DigitPartVal(IntPart(m), 0))
      E == IF IndexOf(u, "e") = 0 THEN 0
           ELSE SignOf(Exponent(u)) * DigitPartVal(Unsigned(Exponent(u)), 0)
  IN  [num |-> SignOf(Strip(v)) * M * Pow10(E - f), den |-> Pow10(f - E)]

\* x < y for two floats
FloatLess(x, y) == x.num * y.den < y.num * x.den

\* ------------------------------------------------------ min, max, sorted
\* min() and max() of a non-empty set of int
MinInt(S) == CHOOSE x \in S : \A y \in S : x <= y

MaxInt(S) == CHOOSE x \in S : \A y \in S : y <= x

\* a float in lowest terms, so that equal floats print alike
RECURSIVE Norm(_)
Norm(x) ==
  IF x.den > 1 /\ x.num % 10 = 0
  THEN Norm([num |-> x.num \div 10, den |-> x.den \div 10])
  ELSE x

\* min() and max() of a non-empty set of float
MinFloat(S) == Norm(CHOOSE x \in S : \A y \in S : ~FloatLess(y, x))

MaxFloat(S) == Norm(CHOOSE x \in S : \A y \in S : ~FloatLess(x, y))

\* min() and max() of a non-empty set of str
MinStr(S) == CHOOSE x \in S : \A y \in S : ~StrLess(y, x)

MaxStr(S) == CHOOSE x \in S : \A y \in S : ~StrLess(x, y)

\* a_set listed from its greatest str down
RECURSIVE SortedDown(_)
SortedDown(S) == IF S = {} THEN <<>> ELSE <<MaxStr(S)>> \o SortedDown(S \ {MaxStr(S)})

\* sorted(a_set) for a set of str
RECURSIVE Sorted(_)
Sorted(S) == IF S = {} THEN <<>> ELSE <<MinStr(S)>> \o Sorted(S \ {MinStr(S)})

\* ---------------------------------------------------------------- show_set
BORING_SET == {<<>>, <<"0">>, <<"0", ".", "0">>}

\* the line 'boring: <name>'
BoringLine(name) == [kind |-> "boring", name |-> name]

\* the line 'constant: <name>=<value>'
ConstantLine(name, a_set) ==
  [kind |-> "constant", name |-> name, value |-> CHOOSE v \in a_set : TRUE]

\* the line 'limited: <name>=<sorted list>'
LimitedLine(name, a_set) ==
  [kind |-> "limited", name |-> name, values |-> Sorted(a_set)]

\* a_set had the remove worked on a copy
RemoveEmptyOnCopy(a_set) == a_set

\* a_set after a_set.remove('') (a KeyError leaves it as it is)
RemoveEmpty(a_set) == a_set \ {<<>>}

\* sempty: whether the remove found the empty string
Sempty(a_set) == IF <<>> \in a_set THEN " excluding empties" ELSE ""

\* stype: the first tier whose parse succeeds on every value
Stype(work) ==
  IF \A v \in work : IntOk(v) THEN "integer "
  ELSE IF \A v \in work : FloatOk(v) THEN "float "
  ELSE ""

\* smin had min() been taken of the str and parsed afterwards
SminOfStr(work) ==
  IF Stype(work) = "integer " THEN IntVal(MinStr(work))
  ELSE IF Stype(work) = "float " THEN Norm(FloatVal(MinStr(work)))
  ELSE MinStr(work)

\* smin = min(slist)
Smin(work) ==
  IF Stype(work) = "integer " THEN MinInt({IntVal(v) : v \in work})
  ELSE IF Stype(work) = "float " THEN MinFloat({FloatVal(v) : v \in work})
  ELSE MinStr(work)

\* smax = max(slist)
Smax(work) ==
  IF Stype(work) = "integer " THEN MaxInt({IntVal(v) : v \in work})
  ELSE IF Stype(work) = "float " THEN MaxFloat({FloatVal(v) : v \in work})
  ELSE MaxStr(work)

\* the first format argument of the last print: len(a_set) after the remove
CountPrinted(work) == Cardinality(work)

\* the line '<count> different <stype>values for <name> ranging from ...'
RangedLine(name, a_set) ==
  LET work == RemoveEmpty(a_set)
  IN  [kind |-> "ranged", name |-> name, count |-> CountPrinted(work),
       stype |-> Stype(work), smin |-> Smin(work), smax |-> Smax(work),
       sempty |-> Sempty(a_set)]

\* the rules had the test of one member come first
RuleConstantFirst(a_set) ==
  IF Cardinality(a_set) = 1 THEN "constant"
  ELSE IF a_set \subseteq BORING_SET THEN "boring"
  ELSE IF Cardinality(a_set) <= 5 THEN "limited"
  ELSE "ranged"

\* the rule of show_set that a_set falls under
Rule(a_set) ==
  IF a_set \subseteq BORING_SET THEN "boring"
  ELSE IF Cardinality(a_set) = 1 THEN "constant"
  ELSE IF Cardinality(a_set) <= 5 THEN "limited"
  ELSE "ranged"

\* show_set raises TypeError: sorted(), int(), float() or min() meets None
\* among values that are str
Raises(a_set) == Rule(a_set) \in {"limited", "ranged"} /\ NoneV \in a_set

\* show_set(name, a_set): the lines it prints, whether it raises, and a_set
\* as the call leaves it
show_set(name, a_set) ==
  [lines |-> IF Raises(a_set) THEN <<>>
             ELSE IF Rule(a_set) = "boring" THEN <<BoringLine(name)>>
             ELSE IF Rule(a_set) = "constant" THEN <<ConstantLine(name, a_set)>>
             ELSE IF Rule(a_set) = "limited" THEN <<LimitedLine(name, a_set)>>
             ELSE <<RangedLine(name, a_set)>>,
   raised |-> Raises(a_set),
   a_set |-> IF Rule(a_set) = "ranged" THEN RemoveEmpty(a_set) ELSE a_set]

\* -------------------------------------------------------------- the inputs
\* column names of the header rows
ColNames == {<<"a">>, <<"b">>}

\* reader.fieldnames of a file with no line at all, and before any reader is
\* made: None
NoHeader == <<NoneV>>

\* reader.fieldnames of the input files: None, [] for a file whose first
\* line is blank, or the names of the header row
Headers == {NoHeader, <<>>, <<<<"a">>>>, <<<<"b">>, <<"a">>>>}

\* the fields of the data rows
RowValues == {<<>>, <<"x">>}

\* the value lists of the --column options; <<>> when there is none
ColumnArgs == {<<>>, <<<<"a">>>>, <<<<"b">>>>}

\* csv.list_dialects()
Dialects == <<"excel", "excel-tab", "unix">>

\* the --dialect option; "" when there is none, "bogus" a name csv does
\* not know
DialectArgs == {"", "excel", "bogus"}

\* the rows csv.reader can yield under a header of n names: none, fewer,
\* as many, or one more field than the header
RowsFor(n) == UNION {[1..k -> RowValues] : k \in 0..(n + 1)}

\* the values show_set is checked on
Universe ==
  { <<>>, <<"0">>, <<"0", ".", "0">>, <<"5">>, <<"1", "0">>, <<"-", "3">>,
    <<" ", "2">>, <<"1", "_", "5">>, <<"1", ".", "5">>, <<"1", "e", "1">>,
    <<".", "5">>, <<"x">>, <<"1", "e">>, NoneV }

\* --------------------------------------------------------------- the state
VARIABLES
  list_dialects,  \* args.list_dialects
  columns,        \* args.columns
  dialect,        \* args.dialect
  nfiles,         \* len(args.files)
  fi,             \* the position in args.files of the for loop of main
  pc,             \* where main is
  rtn,            \* rtn
  field_counter,  \* field_counter: the keys in insertion order, with their sets
  fieldnames,     \* reader.fieldnames of the open file
  nrows,          \* the rows the reader has yielded from the open file
  keys,           \* sorted(field_counter), the list the last loop walks
  ki,             \* the position in keys of the last loop
  out,            \* the lines written to sys.stdout
  errs,           \* the lines written to sys.stderr
  opened,         \* history: per file, "failed", "open", "sniff_failed"
                  \* or "drained"
  seen,           \* history: per column name, the fields read in that column
  calls           \* history: the calls of show_set that ran to their own end
                  \* (return or raise), argument and lines printed

vars ==
  << list_dialects, columns, dialect, nfiles, fi, pc, rtn, field_counter, fieldnames, nrows,
     keys, ki, out, errs, opened, seen, calls >>

\* ------------------------------------------------------------ field_counter
\* the keys of a dict
KeySet(fc) == {fc[i].key : i \in 1..Len(fc)}

\* fc[k], for a key of fc
Vals(fc, k) == (CHOOSE e \in {fc[i] : i \in 1..Len(fc)} : e.key = k).vals

\* fc[k] of the defaultdict: a missing key gets set() first
Touch(fc, k) == IF k \in KeySet(fc) THEN fc ELSE Append(fc, [key |-> k, vals |-> {}])

\* fc[k] = vals
Put(fc, k, vals) ==
  [i \in 1..Len(fc) |-> IF fc[i].key = k THEN [key |-> k, vals |-> vals] ELSE fc[i]]

\* --------------------------------------------------------------- DictReader
\* the value csv.DictReader stores under restkey: a list, which is unhashable
ListV == <<"list">>

\* the row DictReader makes of a csv row: the header names zipped with the
\* fields, restval None for a missing field, restkey None for the extra ones
DictRow(names, row) ==
  [i \in 1..Len(names) |->
     [key |-> names[i], value |-> IF i <= Len(row) THEN row[i] ELSE NoneV]]
  \o (IF Len(row) > Len(names) THEN <<[key |-> NoneV, value |-> ListV]>> ELSE <<>>)

\* row[k] of a DictReader row that has the key k (a later duplicate wins)
RowGet(rec, k) ==
  rec[CHOOSE i \in 1..Len(rec) : rec[i].key = k /\ \A j \in (i + 1)..Len(rec) : rec[j].key # k].value

RowHas(rec, k) == \E i \in 1..Len(rec) : rec[i].key = k

\* for key in row: field_counter[key].add(row[key]), from the i-th key on;
\* set.add of a list raises TypeError after the defaultdict made the key
RECURSIVE Aggregate(_, _, _)
Aggregate(fc, rec, i) ==
  IF i > Len(rec) THEN [fc |-> fc, raised |-> FALSE]
  ELSE LET k == rec[i].key
           t == Touch(fc, k)
       IN  IF RowGet(rec, k) = ListV THEN [fc |-> t, raised |-> TRUE]
           ELSE Aggregate(Put(t, k, Vals(t, k) \cup {RowGet(rec, k)}), rec, i + 1)

\* '\t'.join([row[key] for key in args.columns]) raises KeyError for a
\* column the row lacks and TypeError for a None
ProjectRaises(rec, cols) ==
  \E i \in 1..Len(cols) : ~RowHas(rec, cols[i]) \/ RowGet(rec, cols[i]) = NoneV

ProjectLine(rec, cols) ==
  [kind |-> "row", fields |-> [i \in 1..Len(cols) |-> RowGet(rec, cols[i])]]

\* 'if args.columns:' of the row loop: the row is printed, not aggregated
RowProjectedMulti(cols) == Len(cols) > 1

RowProjected(cols) == cols # <<>>

\* history: the fields of a csv row, added to the column they stand in
See(s, names, row) ==
  [c \in ColNames |->
     s[c] \cup {row[i] : i \in {j \in 1..Len(row) : j <= Len(names) /\ names[j] = c}}]

\* the keys of field_counter as a loop over the dict itself gives them
InsertionKeys(fc) == [i \in 1..Len(fc) |-> fc[i].key]

\* sorted(field_counter)
SortedKeys(fc) == Sorted(KeySet(fc))

\* --------------------------------------------------------------------- main
\* main after parse_args and the default of args.files; rtn and
\* field_counter are not bound yet and stand at the values Begin gives them
Init ==
  /\ list_dialects \in BOOLEAN
  /\ columns \in ColumnArgs
  /\ dialect \in DialectArgs
  /\ nfiles \in 1..MaxFiles
  /\ fi = 1
  /\ pc = "start"
  /\ rtn = 0
  /\ field_counter = <<>>
  /\ fieldnames = NoHeader
  /\ nrows = 0
  /\ keys = <<>>
  /\ ki = 0
  /\ out = <<>>
  /\ errs = <<>>
  /\ opened = <<>>
  /\ seen = [c \in ColNames |-> {}]
  /\ calls = <<>>

\* --list-dialects: the names of csv.list_dialects(), then sys.exit(1)
ListDialects ==
  /\ pc = "start"
  /\ list_dialects
  /\ out' = out \o [i \in 1..Len(Dialects) |-> [kind |-> "dialect", name |-> Dialects[i]]]
  /\ pc' = "listed"
  /\ UNCHANGED << list_dialects, columns, dialect, nfiles, fi, rtn, field_counter,
                  fieldnames, nrows, keys, ki, errs, opened, seen, calls >>

\* rtn = 0 and field_counter = collections.defaultdict(set), then the loop
\* over args.files
Begin ==
  /\ pc = "start"
  /\ ~list_dialects
  /\ rtn' = 0
  /\ field_counter' = <<>>
  /\ pc' = "open"
  /\ UNCHANGED << list_dialects, columns, dialect, nfiles, fi, fieldnames, nrows,
                  keys, ki, out, errs, opened, seen, calls >>

\* the open error reported but not counted
OpenFailUncounted ==
  /\ pc = "open"
  /\ fi <= nfiles
  /\ errs' = Append(errs, fi)
  /\ fi' = fi + 1
  /\ opened' = Append(opened, "failed")
  /\ UNCHANGED << list_dialects, columns, dialect, nfiles, pc, rtn, field_counter, fieldnames,
                  nrows, keys, ki, out, seen, calls >>

\* open_ro_with_error yields (None, err): the message, rtn += 1, next file
OpenFail ==
  /\ pc = "open"
  /\ fi <= nfiles
  /\ errs' = Append(errs, fi)
  /\ rtn' = rtn + 1
  /\ fi' = fi + 1
  /\ opened' = Append(opened, "failed")
  /\ UNCHANGED << list_dialects, columns, dialect, nfiles, pc, field_counter, fieldnames,
                  nrows, keys, ki, out, seen, calls >>

\* open_ro_with_error yields (file_handle, None)
OpenOk ==
  /\ pc = "open"
  /\ fi <= nfiles
  /\ opened' = Append(opened, "open")
  /\ pc' = IF dialect = "" THEN "sniff" ELSE "reader"
  /\ UNCHANGED << list_dialects, columns, dialect, nfiles, fi, rtn, field_counter, fieldnames,
                  nrows, keys, ki, out, errs, seen, calls >>

\* csv.Sniffer().sniff(...) returns a dialect
SniffOk ==
  /\ pc = "sniff"
  /\ pc' = "reader"
  /\ UNCHANGED << list_dialects, columns, dialect, nfiles, fi, rtn, field_counter, fieldnames,
                  nrows, keys, ki, out, errs, opened, seen, calls >>

\* csv.Sniffer().sniff(...) raises csv.Error, which nothing catches: the
\* file is closed and main is left by the exception
SniffFail ==
  /\ pc = "sniff"
  /\ pc' = "crashed"
  /\ opened' = [opened EXCEPT ![fi] = "sniff_failed"]
  /\ UNCHANGED << list_dialects, columns, dialect, nfiles, fi, rtn, field_counter, fieldnames,
                  nrows, keys, ki, out, errs, seen, calls >>

\* csv.DictReader(...) raises csv.Error for a dialect name csv does not
\* know; nothing catches it
MakeReaderFail ==
  /\ pc = "reader"
  /\ dialect # ""
  /\ \A i \in 1..Len(Dialects) : Dialects[i] # dialect
  /\ pc' = "crashed"
  /\ UNCHANGED << list_dialects, columns, dialect, nfiles, fi, rtn, field_counter,
                  fieldnames, nrows, keys, ki, out, errs, opened, seen, calls >>

\* csv.DictReader(...) and the header line of the --column options
MakeReader ==
  /\ pc = "reader"
  /\ dialect = "" \/ \E i \in 1..Len(Dialects) : Dialects[i] = dialect
  /\ \E names \in Headers : fieldnames' = names
  /\ nrows' = 0
  /\ out' = IF columns # <<>> THEN Append(out, [kind |-> "row", fields |-> columns])
            ELSE out
  /\ pc' = "rows"
  /\ UNCHANGED << list_dialects, columns, dialect, nfiles, fi, rtn, field_counter, keys, ki,
                  errs, opened, seen, calls >>

\* the reader raises while it reads the file (UnicodeDecodeError for a byte
\* that is no utf-8, csv.Error for a line it cannot parse); nothing catches it
ReadFail ==
  /\ pc = "rows"
  /\ pc' = "crashed"
  /\ UNCHANGED << list_dialects, columns, dialect, nfiles, fi, rtn, field_counter,
                  fieldnames, nrows, keys, ki, out, errs, opened, seen, calls >>

\* one turn of 'for row in reader'; DictReader skips a row without fields,
\* and yields nothing for a file without a line
ReadRow ==
  /\ pc = "rows"
  /\ fieldnames # NoHeader
  /\ nrows < MaxRows
  /\ \E row \in RowsFor(Len(fieldnames)) :
       LET rec == DictRow(fieldnames, row)
           agg == Aggregate(field_counter, rec, 1)
       IN  /\ nrows' = nrows + 1
           /\ seen' = See(seen, fieldnames, row)
           /\ IF row = <<>>
              THEN UNCHANGED << out, field_counter, pc >>
              ELSE IF RowProjected(columns)
              THEN /\ out' = IF ProjectRaises(rec, columns) THEN out
                             ELSE Append(out, ProjectLine(rec, columns))
                   /\ pc' = IF ProjectRaises(rec, columns) THEN "crashed" ELSE pc
                   /\ UNCHANGED field_counter
              ELSE /\ field_counter' = agg.fc
                   /\ pc' = IF agg.raised THEN "crashed" ELSE pc
                   /\ UNCHANGED out
  /\ UNCHANGED << list_dialects, columns, dialect, nfiles, fi, rtn, fieldnames, keys, ki,
                  errs, opened, calls >>

\* the reader is exhausted: the with statement closes the file, next file
CloseFile ==
  /\ pc = "rows"
  /\ opened' = [opened EXCEPT ![fi] = "drained"]
  /\ fi' = fi + 1
  /\ pc' = "open"
  /\ UNCHANGED << list_dialects, columns, dialect, nfiles, rtn, field_counter, fieldnames,
                  nrows, keys, ki, out, errs, seen, calls >>

\* the files are done: sorted(field_counter) of the last loop
StartShow ==
  /\ pc = "open"
  /\ fi > nfiles
  /\ keys' = SortedKeys(field_counter)
  /\ ki' = 1
  /\ pc' = "show"
  /\ UNCHANGED << list_dialects, columns, dialect, nfiles, fi, rtn, field_counter, fieldnames,
                  nrows, out, errs, opened, seen, calls >>

\* one turn of the last loop: show_set(key, field_counter[key])
ShowNext ==
  /\ pc = "show"
  /\ ki <= Len(keys)
  /\ LET a_set == Vals(field_counter, keys[ki])
         r == show_set(keys[ki], a_set)
     IN  /\ out' = out \o r.lines
         /\ field_counter' = Put(field_counter, keys[ki], r.a_set)
         /\ calls' = Append(calls, [name |-> keys[ki], a_set |-> a_set,
                                    lines |-> r.lines])
         /\ pc' = IF r.raised THEN "crashed" ELSE "show"
  /\ ki' = ki + 1
  /\ UNCHANGED << list_dialects, columns, dialect, nfiles, fi, rtn, fieldnames, nrows, keys,
                  errs, opened, seen >>

\* return rtn
Return ==
  /\ pc = "show"
  /\ ki > Len(keys)
  /\ pc' = "done"
  /\ UNCHANGED << list_dialects, columns, dialect, nfiles, fi, rtn, field_counter, fieldnames,
                  nrows, keys, ki, out, errs, opened, seen, calls >>

\* the places of main where it still runs
Running == {"start", "open", "sniff", "reader", "rows", "show"}

\* KeyboardInterrupt is raised between two steps of main
InterruptBetween ==
  /\ pc \in Running
  /\ pc' = "interrupted"
  /\ UNCHANGED << list_dialects, columns, dialect, nfiles, fi, rtn, field_counter,
                  fieldnames, nrows, keys, ki, out, errs, opened, seen, calls >>

\* KeyboardInterrupt is raised in the loop of --list-dialects, after the
\* first n names were printed
InterruptListing ==
  /\ pc = "start"
  /\ list_dialects
  /\ \E n \in 1..Len(Dialects) :
       out' = out \o [i \in 1..n |-> [kind |-> "dialect", name |-> Dialects[i]]]
  /\ pc' = "interrupted"
  /\ UNCHANGED << list_dialects, columns, dialect, nfiles, fi, rtn, field_counter,
                  fieldnames, nrows, keys, ki, errs, opened, seen, calls >>

\* KeyboardInterrupt is raised after the message of an open error was
\* printed and before rtn += 1
InterruptOpenFail ==
  /\ pc = "open"
  /\ fi <= nfiles
  /\ errs' = Append(errs, fi)
  /\ opened' = Append(opened, "failed")
  /\ pc' = "interrupted"
  /\ UNCHANGED << list_dialects, columns, dialect, nfiles, fi, rtn, field_counter,
                  fieldnames, nrows, keys, ki, out, seen, calls >>

\* KeyboardInterrupt is raised in 'for key in row' after the first n keys
\* of a row were added, the defaultdict having made the set of the next
\* key or not
InterruptRow ==
  /\ pc = "rows"
  /\ fieldnames # NoHeader
  /\ nrows < MaxRows
  /\ ~RowProjected(columns)
  /\ \E row \in RowsFor(Len(fieldnames)) \ {<<>>} :
       LET rec == DictRow(fieldnames, row)
       IN  \E n \in 0..(Len(rec) - 1), touched \in BOOLEAN :
             LET fc == Aggregate(field_counter, SubSeq(rec, 1, n), 1).fc
             IN  /\ n > 0 \/ touched
                 /\ field_counter' = IF touched THEN Touch(fc, rec[n + 1].key) ELSE fc
                 /\ seen' = See(seen, fieldnames, row)
  /\ nrows' = nrows + 1
  /\ pc' = "interrupted"
  /\ UNCHANGED << list_dialects, columns, dialect, nfiles, fi, rtn, fieldnames,
                  keys, ki, out, errs, opened, calls >>

\* KeyboardInterrupt is raised in show_set before its line is printed: under
\* the ranged rule a_set.remove('') has already taken the empty string out
\* of the set of the column
InterruptShow ==
  /\ pc = "show"
  /\ ki <= Len(keys)
  /\ field_counter' = Put(field_counter, keys[ki],
                          show_set(keys[ki], Vals(field_counter, keys[ki])).a_set)
  /\ pc' = "interrupted"
  /\ UNCHANGED << list_dialects, columns, dialect, nfiles, fi, rtn, fieldnames,
                  nrows, keys, ki, out, errs, opened, seen, calls >>

\* KeyboardInterrupt is raised in main, between two steps or inside one:
\* an open file is closed by the with statement, and __main__ catches the
\* exception for sys.exit(2)
Interrupt ==
  \/ InterruptBetween
  \/ InterruptListing
  \/ InterruptOpenFail
  \/ InterruptRow
  \/ InterruptShow

\* the exit status of the process: sys.exit(main()), sys.exit(1) of
\* --list-dialects, 1 for an uncaught exception, sys.exit(2) for a
\* KeyboardInterrupt; -1 while main runs
ExitStatus ==
  IF pc = "done" THEN rtn % 256
  ELSE IF pc \in {"listed", "crashed"} THEN 1
  ELSE IF pc = "interrupted" THEN 2
  ELSE -1

Next ==
  \/ ListDialects
  \/ Begin
  \/ OpenFail
  \/ OpenOk
  \/ SniffOk
  \/ SniffFail
  \/ MakeReaderFail
  \/ MakeReader
  \/ ReadFail
  \/ ReadRow
  \/ CloseFile
  \/ StartShow
  \/ ShowNext
  \/ Return
  \/ Interrupt

Spec == Init /\ [][Next]_vars

\* ------------------------------------------ show_set on one column's values
\* main at its last loop, with one column whose set is any set of at most
\* MaxCard values of Universe
ShowInit ==
  /\ list_dialects = FALSE
  /\ columns = <<>>
  /\ dialect = "excel"
  /\ nfiles = 1
  /\ fi = 2
  /\ pc = "show"
  /\ rtn = 0
  /\ \E S \in SUBSET Universe :
       /\ S # {}
       /\ Cardinality(S) <= MaxCard
       /\ field_counter = <<[key |-> <<"a">>, vals |-> S]>>
       /\ seen = [c \in ColNames |-> IF c = <<"a">> THEN S \ {NoneV} ELSE {}]
  /\ fieldnames = <<<<"a">>>>
  /\ nrows = 0
  /\ keys = <<<<"a">>>>
  /\ ki = 1
  /\ out = <<>>
  /\ errs = <<>>
  /\ opened = <<"drained">>
  /\ calls = <<>>

ShowSpecNext ==
  \/ ShowNext
  \/ Return
  \/ InterruptBetween
  \/ InterruptShow

ShowSpec == ShowInit /\ [][ShowSpecNext]_vars

\* ------------------------------------------------------------------ claims
\* the calls of show_set whose set has six or more values and that printed
RangedCalls ==
  {i \in 1..Len(calls) : Cardinality(calls[i].a_set) >= 6 /\ calls[i].lines # <<>>}

\* the calls of show_set on a set of str
StrCalls == {i \in 1..Len(calls) : NoneV \notin calls[i].a_set}

\* the lines show_set prints
AnalysisKinds == {"boring", "constant", "limited", "ranged"}

\* the positions in out of the lines of show_set
AnalysisLines == {i \in 1..Len(out) : out[i].kind \in AnalysisKinds}

\* C1 as the spec states it: for a set of six or more values the count of
\* the 'N different ... values' line is the size the set had when show_set
\* was called, the empty string counted
C1_CountIsOriginalSize ==
  \A i \in RangedCalls : calls[i].lines[1].count = Cardinality(calls[i].a_set)

\* C1 amended: for a set of six or more values the count of the 'N different
\* ... values' line is the number of values other than the empty string: the
\* size of the set less one when '' is in it, and then, and only then, the
\* line ends with ' excluding empties'
C1_CountExcludesEmpty ==
  \A i \in RangedCalls :
    LET a_set == calls[i].a_set
        line == calls[i].lines[1]
    IN  /\ line.kind = "ranged"
        /\ <<>> \in a_set =>
             /\ line.count = Cardinality(a_set) - 1
             /\ line.sempty = " excluding empties"
        /\ <<>> \notin a_set =>
             /\ line.count = Cardinality(a_set)
             /\ line.sempty = ""

\* a set of six values, '' among them, printed with the count five
C1_Witness ==
  \E i \in RangedCalls :
    /\ <<>> \in calls[i].a_set
    /\ Cardinality(calls[i].a_set) = 6
    /\ calls[i].lines[1].count = 5
    /\ calls[i].lines[1].sempty = " excluding empties"

\* C2: on every set of str show_set prints exactly one line, about the
\* column it was called for, whose kind is the first rule that matches:
\* boring for a subset of {'', '0', '0.0'} of any size, else constant for
\* one member, else limited for 2 to 5 members, else ranged for 6 or more
C2_FirstMatchingRule ==
  \A i \in StrCalls :
    LET a_set == calls[i].a_set
        n == Cardinality(a_set)
    IN  /\ Len(calls[i].lines) = 1
        /\ calls[i].lines[1].name = calls[i].name
        /\ calls[i].lines[1].kind =
             IF a_set \subseteq {<<>>, <<"0">>, <<"0", ".", "0">>} THEN "boring"
             ELSE IF n = 1 THEN "constant"
             ELSE IF n \in 2..5 THEN "limited"
             ELSE "ranged"
        /\ calls[i].lines[1].kind = "ranged" => n >= 6

\* a set of the one member '0', which is boring and not constant, and a
\* boring set of three members
C2_Witness ==
  \E i \in StrCalls :
    /\ calls[i].a_set \in {{<<"0">>}, {<<>>, <<"0">>, <<"0", ".", "0">>}}
    /\ calls[i].lines[1].kind = "boring"

\* C3: when main returns, its return value rtn is the number of files that
\* failed to open, one message was printed for each of them, every file of
\* the list was either reported as failing to open or read to its end,
\* whatever failed to open before it, and the exit status of the process is
\* that number modulo 256; before main returns rtn never exceeds the number
\* of failed opens (an interrupt can fall between the message and rtn += 1)
C3_ExitCodeCountsOpenFailures ==
  LET failed == Cardinality({i \in 1..Len(opened) : opened[i] = "failed"})
  IN  /\ rtn <= failed
      /\ pc = "done" =>
           /\ rtn = failed
           /\ Len(errs) = failed
           /\ Len(opened) = nfiles
           /\ \A i \in 1..nfiles : opened[i] \in {"failed", "drained"}
           /\ ExitStatus = failed % 256

\* main returned 1 after the first file failed to open and the second was
\* read and aggregated
C3_Witness ==
  /\ pc = "done"
  /\ opened = <<"failed", "drained">>
  /\ rtn = 1
  /\ ExitStatus = 1
  /\ field_counter # <<>>

\* C4 as the spec states it: a file whose sample cannot be sniffed is
\* counted in rtn like a file that fails to open and does not end the run
C4_SniffFailureCounted ==
  \A i \in 1..Len(opened) :
    opened[i] = "sniff_failed" =>
      /\ pc # "crashed"
      /\ rtn = Cardinality({j \in 1..Len(opened) :
                              opened[j] \in {"failed", "sniff_failed"}})

\* C5: a 'limited' line lists the values read in its column, each once, in
\* ascending order of str; it is determined by the set of the values read,
\* whatever the order of the rows
C5_LimitedSorted ==
  \A i \in AnalysisLines :
    out[i].kind = "limited" =>
      LET vs == out[i].values
      IN  /\ \A j \in 1..Len(vs), k \in 1..Len(vs) : j < k => StrLess(vs[j], vs[k])
          /\ {vs[j] : j \in 1..Len(vs)} = seen[out[i].name]
          /\ Len(vs) = Cardinality(seen[out[i].name])
          /\ Len(vs) \in 2..5

\* a 'limited' line of the two values '' and 'x', read in two rows
C5_Witness ==
  \E i \in AnalysisLines :
    /\ out[i].kind = "limited"
    /\ out[i].values = <<<<>>, <<"x">>>>
    /\ pc = "done"

\* C6: for a set of six or more str, with '' set aside: when every value
\* parses as an int the label is 'integer ' and smin and smax are the least
\* and the greatest of the parsed values; when one fails int() but all
\* parse as float the label is 'float '; when one fails float() the label
\* is '' and smin and smax are the least and greatest str; one label and
\* one ordering for the whole column
C6_Tiers ==
  \A i \in RangedCalls \cap StrCalls :
    LET work == calls[i].a_set \ {<<>>}
        line == calls[i].lines[1]
    IN  /\ (\A v \in work : IntOk(v)) =>
             /\ line.stype = "integer "
             /\ \A v \in work : line.smin <= IntVal(v) /\ IntVal(v) <= line.smax
             /\ \E v \in work : line.smin = IntVal(v)
             /\ \E v \in work : line.smax = IntVal(v)
        /\ ((\E v \in work : ~IntOk(v)) /\ (\A v \in work : FloatOk(v))) =>
             /\ line.stype = "float "
             /\ \A v \in work : ~FloatLess(FloatVal(v), line.smin)
             /\ \A v \in work : ~FloatLess(line.smax, FloatVal(v))
        /\ (\E v \in work : ~FloatOk(v)) =>
             /\ line.stype = ""
             /\ line.smin \in work /\ line.smax \in work
             /\ \A v \in work : ~StrLess(v, line.smin) /\ ~StrLess(line.smax, v)

\* six int among them '10', '5' and '-3': the least is -3 and the
\* greatest 15, not the least and greatest str
C6_Witness ==
  \E i \in RangedCalls \cap StrCalls :
    /\ calls[i].lines[1].stype = "integer "
    /\ calls[i].lines[1].smin = -3
    /\ calls[i].lines[1].smax = 15

\* C7: with a --column option nothing is put in field_counter, show_set is
\* not called and no line of show_set is printed
C7_ProjectionNeverAggregates ==
  columns # <<>> =>
    /\ field_counter = <<>>
    /\ calls = <<>>
    /\ AnalysisLines = {}

\* main returned in projection mode after it printed the header line and
\* two rows
C7_Witness ==
  /\ columns # <<>>
  /\ pc = "done"
  /\ Len(out) >= 3
  /\ out[2].fields # out[3].fields

\* C8 as the spec states it: the set of a column holds only str that were
\* read in that column; a row shorter than the header adds nothing to the
\* sets of the columns it lacks
C8_ShortRowAddsNothing ==
  \A i \in 1..Len(field_counter) :
    field_counter[i].key \in ColNames =>
      field_counter[i].vals \subseteq seen[field_counter[i].key]

\* C9 as the spec states it: while the files are read the set of each
\* column is exactly the set of the str read so far in that column
C9_AccumulatorExact ==
  (columns = <<>> /\ pc \in {"open", "sniff", "reader", "rows"}) =>
    \A c \in ColNames :
      (IF c \in KeySet(field_counter) THEN Vals(field_counter, c) ELSE {}) = seen[c]

\* C10: with no --column option a line of show_set is printed only after
\* every file was opened and left; the lines come in ascending order of
\* column name, so each column at most once, and when main returns there is
\* one for each column
C10_SortedAfterInput ==
  columns = <<>> =>
    /\ AnalysisLines # {} =>
         /\ pc \in {"show", "done", "crashed", "interrupted"}
         /\ Len(opened) = nfiles
         /\ \A i \in 1..nfiles : opened[i] \in {"failed", "drained"}
    /\ \A i \in AnalysisLines, j \in AnalysisLines :
         i < j => StrLess(out[i].name, out[j].name)
    /\ pc = "done" =>
         /\ AnalysisLines = 1..Len(out)
         /\ {out[i].name : i \in AnalysisLines} = KeySet(field_counter)

\* main returned after it printed the line of column a and then that of
\* column b, b being the first key of field_counter
C10_Witness ==
  /\ columns = <<>>
  /\ pc = "done"
  /\ Len(out) = 2
  /\ field_counter[1].key = <<"b">>
  /\ out[1].name = <<"a">>

====
